---- MODULE Spec2Model ----
(***************************************************************************)
(* Ram Knight (src/main.py): the level grid, the laser propagation         *)
(* (update_lasers), the movement resolution (move), the status scan        *)
(* (determine_new_state) and the validator (validate_state), driven by the *)
(* calls the shell of main.py makes: load_file, then move / update_lasers. *)
(*                                                                         *)
(* A level state s is a list of rows, each a list of one-character         *)
(* strings, as in the source.  Rows and columns are numbered from 1 here   *)
(* (from 0 in the source); in_bounds is shifted accordingly.               *)
(***************************************************************************)
EXTENDS Integers, Sequences, FiniteSets, TLC

VARIABLES
    level,   \* the level file's contents as read by load_file (never changes)
    s,       \* the level state (list of rows)
    e_code,  \* the status last returned by validate_state / move
    pc,      \* "load": file read, lasers not yet traced; "play"; "exit"
    hist,    \* the engine calls made since the load, oldest first
    loop     \* the registers of the engine call under way, when its loops are
             \* followed one iteration at a time (SpecLoops); Idle otherwise

vars == <<level, s, e_code, pc, hist, loop>>

(***************************************************************************)
(* Status codes and the tile alphabet.                                     *)
(***************************************************************************)
_victory == 0
_invalid == 1
_unfinished == 2
_defeated == 3

_valid_chars ==
    {"G", "@", "Y", "F", "M", "m", "_", ".", " ", "x", "o", "W", "w",
     "v", "^", "<", ">", "|", "+", "-"}

Dirs == {"h", "j", "k", "l"}

(***************************************************************************)
(* Grid accessors.                                                         *)
(***************************************************************************)
at_pos(g, i, j) == g[i][j]

set_at_pos(g, i, j, c) == [g EXCEPT ![i][j] = c]

bounds(g) == <<Len(g), Len(g[1])>>

\* next_pos with left and right exchanged
next_pos_mirrored(row, col, dir) ==
    IF dir = "h" THEN <<row, col + 1>>
    ELSE IF dir = "l" THEN <<row, col - 1>>
    ELSE IF dir = "k" THEN <<row - 1, col>>
    ELSE <<row + 1, col>>

next_pos(row, col, dir) ==
    IF dir = "h" THEN <<row, col - 1>>
    ELSE IF dir = "l" THEN <<row, col + 1>>
    ELSE IF dir = "k" THEN <<row - 1, col>>
    ELSE <<row + 1, col>>

in_bounds(height, width, row, col) ==
    row >= 1 /\ col >= 1 /\ row <= height /\ col <= width

RECURSIVE find_in_row(_, _, _, _)
find_in_row(l, i, x, j) ==
    IF j > Len(l) THEN <<>>
    ELSE (IF l[j] = x THEN << <<i, j>> >> ELSE <<>>) \o find_in_row(l, i, x, j + 1)

RECURSIVE find_from_row(_, _, _)
find_from_row(g, x, i) ==
    IF i > Len(g) THEN <<>>
    ELSE find_in_row(g[i], i, x, 1) \o find_from_row(g, x, i + 1)

\* the positions of character x in row-major order
find_pos(g, x) == find_from_row(g, x, 1)

(***************************************************************************)
(* determine_new_state: the first Y or @ in row-major order decides.       *)
(***************************************************************************)
RECURSIVE scan_from(_, _, _)
scan_from(g, i, j) ==
    IF i > Len(g) THEN _unfinished
    ELSE IF j > Len(g[i]) THEN scan_from(g, i + 1, 1)
    ELSE IF g[i][j] = "Y" THEN _defeated
    ELSE IF g[i][j] = "@" THEN _victory
    ELSE scan_from(g, i, j + 1)

determine_new_state(g) == scan_from(g, 1, 1)

(***************************************************************************)
(* validate_state.                                                         *)
(***************************************************************************)
count_of(g, x) == Len(find_pos(g, x))

\* validate_state without the comparison of the line lengths
validate_state_any_length(g) ==
    LET goat_count == count_of(g, "G") + count_of(g, "Y") + count_of(g, "@")
        invalid == \E i \in 1..Len(g) : \E j \in 1..Len(g[i]) :
                       g[i][j] \notin _valid_chars
    IN  IF invalid THEN _invalid
        ELSE IF count_of(g, "F") = 0 THEN _invalid
        ELSE IF goat_count # 1 THEN _invalid
        ELSE IF count_of(g, "@") > 0 THEN _victory
        ELSE IF count_of(g, "Y") > 0 THEN _defeated
        ELSE _unfinished

validate_state(g) ==
    LET length == Len(g[1])
        goat_count == count_of(g, "G") + count_of(g, "Y") + count_of(g, "@")
        invalid == \E i \in 1..Len(g) : \E j \in 1..Len(g[i]) :
                       g[i][j] \notin _valid_chars
    IN  IF \E i \in 1..Len(g) : Len(g[i]) # length THEN _invalid
        ELSE IF invalid THEN _invalid
        ELSE IF count_of(g, "F") = 0 THEN _invalid
        ELSE IF goat_count # 1 THEN _invalid
        ELSE IF count_of(g, "@") > 0 THEN _victory
        ELSE IF count_of(g, "Y") > 0 THEN _defeated
        ELSE _unfinished

(***************************************************************************)
(* update_lasers: clear every beam tile, collect the emitters (all "<",    *)
(* then all ">", then all "^", then all "v", each in row-major order) and  *)
(* trace each emitter's beam in that order.                                *)
(***************************************************************************)
RECURSIVE set_all(_, _, _)
set_all(g, ps, c) ==
    IF ps = <<>> THEN g
    ELSE set_all(set_at_pos(g, ps[1][1], ps[1][2], c), Tail(ps), c)

clear_beams(g) ==
    LET g1 == set_all(g, find_pos(g, "|"), " ")
        g2 == set_all(g1, find_pos(g1, "-"), " ")
    IN  set_all(g2, find_pos(g2, "+"), " ")

RECURSIVE with_dir(_, _)
with_dir(ps, dir) ==
    IF ps = <<>> THEN <<>>
    ELSE << <<ps[1][1], ps[1][2], dir>> >> \o with_dir(Tail(ps), dir)

lasers_of(g) ==
    with_dir(find_pos(g, "<"), "h") \o with_dir(find_pos(g, ">"), "l")
        \o with_dir(find_pos(g, "^"), "k") \o with_dir(find_pos(g, "v"), "j")

\* laser_obstacles without the defeated ram
laser_obstacles_less == {"F", "m", "M", "w", "W", "<", ">", "^", "v"}

\* laser_obstacles without the finish flag
laser_obstacles_but_flag == {"m", "M", "w", "W", "Y", "<", ">", "^", "v"}

\* laser_obstacles without the sliding weight
laser_obstacles_but_weight == {"F", "m", "M", "W", "Y", "<", ">", "^", "v"}

\* the tiles a beam stops at without marking them
laser_obstacles == {"F", "m", "M", "w", "W", "Y", "<", ">", "^", "v"}

\* the character a trace in direction dir writes on a tile it passes
beam_char(dir) == IF dir \in {"h", "l"} THEN "-" ELSE "|"

\* the loop body's first two branches: the tile holds a beam of the other axis
crosses(c, dir) ==
    \/ c = "-" /\ dir \in {"j", "k"}
    \/ c = "|" /\ dir \in {"h", "l"}

\* what stands for the level state once a list index was out of range: the
\* exception leaves update_lasers and nothing catches it
IndexError == << <<"IndexError">> >>

\* s[row][col] exists
has_pos(g, row, col) == row <= Len(g) /\ col <= Len(g[row])

RECURSIVE trace(_, _, _, _, _, _)
trace(g, height, width, next_row, next_col, dir) ==
    IF ~in_bounds(height, width, next_row, next_col) THEN g
    ELSE IF ~has_pos(g, next_row, next_col) THEN IndexError
    ELSE LET c == at_pos(g, next_row, next_col)
             n == next_pos(next_row, next_col, dir)
         IN  IF crosses(c, dir)
                 THEN trace(set_at_pos(g, next_row, next_col, "+"),
                            height, width, n[1], n[2], dir)
             ELSE IF c = "G" THEN set_at_pos(g, next_row, next_col, "Y")
             ELSE IF c \in laser_obstacles THEN g
             ELSE trace(set_at_pos(g, next_row, next_col, beam_char(dir)),
                        height, width, n[1], n[2], dir)

RECURSIVE trace_all(_, _)
trace_all(g, ls) ==
    IF ls = <<>> \/ g = IndexError THEN g
    ELSE LET n == next_pos(ls[1][1], ls[1][2], ls[1][3])
         IN  trace_all(trace(g, bounds(g)[1], bounds(g)[2], n[1], n[2], ls[1][3]),
                       Tail(ls))

update_lasers(g) ==
    LET g0 == clear_beams(g) IN trace_all(g0, lasers_of(g0))

(***************************************************************************)
(* move: the ram slides in direction dir until something stops it.  The    *)
(* result is the level state after the call and the status returned.       *)
(***************************************************************************)
walk_chars == {" ", "_", "."}

emitter_chars == {"v", "^", "<", ">"}

trap_chars == {"x", "|", "-"}

\* push_chars with the Trap left out: a Trap stops a pushed weight
push_chars_but_trap == {" ", "_", ".", "|", "-", "+"}

\* the tiles a pushed weight may move onto
push_chars == {" ", "_", ".", "x", "|", "-", "+"}

Ret(g, code) == [s |-> g, code |-> code]

\* c in " _.": the ram steps from (row, col) onto (next_row, next_col)
step_ram(g, row, col, next_row, next_col) ==
    set_at_pos(set_at_pos(g, next_row, next_col, "G"), row, col, ".")

\* reach_finish with the victorious ram put on the flag's tile
reach_finish_on_flag(g, row, col, next_row, next_col) ==
    Ret(set_at_pos(set_at_pos(g, next_row, next_col, "@"), row, col, "."), _victory)

\* reach_finish with the ram left as it is
reach_finish_unmarked(g, row, col, next_row, next_col) == Ret(g, _victory)

\* c in "F": the ram reaches the finish flag
reach_finish(g, row, col, next_row, next_col) ==
    Ret(set_at_pos(g, row, col, "@"), _victory)

\* hit_trap with the ram left as it is
hit_trap_unmarked(g, row, col, next_row, next_col) == Ret(g, _defeated)

\* hit_trap with the ram stepping onto the trap and dying there
hit_trap_stepping(g, row, col, next_row, next_col) ==
    Ret(set_at_pos(set_at_pos(g, next_row, next_col, "Y"), row, col, "."),
        _defeated)

\* c in "x|-": the ram dies
hit_trap(g, row, col, next_row, next_col) ==
    Ret(set_at_pos(g, row, col, "Y"), _defeated)

\* push_heavy with the weight moved onto whatever tile lies beyond it
push_heavy_unchecked(g, height, width, row, col, next_row, next_col, dir) ==
    LET over == next_pos(next_row, next_col, dir)
    IN  IF ~in_bounds(height, width, over[1], over[2]) THEN Ret(g, _unfinished)
        ELSE LET g1 == step_ram(set_at_pos(g, over[1], over[2], "W"),
                                row, col, next_row, next_col)
             IN  Ret(g1, determine_new_state(g1))

\* push_heavy with a hole treated as any other tile the weight may move onto
push_heavy_onto_hole(g, height, width, row, col, next_row, next_col, dir) ==
    LET over == next_pos(next_row, next_col, dir)
    IN  IF ~in_bounds(height, width, over[1], over[2]) THEN Ret(g, _unfinished)
        ELSE LET nc == at_pos(g, over[1], over[2])
                 g1 == IF nc \in push_chars \cup {"o"}
                           THEN step_ram(set_at_pos(g, over[1], over[2], "W"),
                                         row, col, next_row, next_col)
                       ELSE g
             IN  Ret(g1, determine_new_state(g1))

\* c in "W": push the heavy weight at (next_row, next_col) one field
push_heavy(g, height, width, row, col, next_row, next_col, dir) ==
    LET over == next_pos(next_row, next_col, dir)
    IN  IF ~in_bounds(height, width, over[1], over[2]) THEN Ret(g, _unfinished)
        ELSE LET nc == at_pos(g, over[1], over[2])
                 g1 == IF nc \in push_chars
                           THEN step_ram(set_at_pos(g, over[1], over[2], "W"),
                                         row, col, next_row, next_col)
                       ELSE IF nc = "o"
                           THEN step_ram(set_at_pos(g, over[1], over[2], "_"),
                                         row, col, next_row, next_col)
                       ELSE g
             IN  Ret(g1, determine_new_state(g1))

\* c in "w": the weight at (row, col) slides until it is stopped
RECURSIVE slide_weight(_, _, _, _, _, _)
slide_weight(g, height, width, row, col, dir) ==
    LET n == next_pos(row, col, dir)
    IN  IF ~in_bounds(height, width, n[1], n[2]) THEN g
        ELSE LET nc == at_pos(g, n[1], n[2])
             IN  IF nc \in push_chars
                     THEN slide_weight(
                              set_at_pos(set_at_pos(g, row, col, " "), n[1], n[2], "w"),
                              height, width, n[1], n[2], dir)
                 ELSE IF nc = "o"
                     THEN set_at_pos(set_at_pos(g, row, col, " "), n[1], n[2], "_")
                 ELSE g

\* push_sliding with the ram following onto the tile the weight has left
push_sliding_follow(g, height, width, row, col, next_row, next_col, dir) ==
    LET g1 == slide_weight(g, height, width, next_row, next_col, dir)
    IN  Ret(IF at_pos(g1, next_row, next_col) = " "
                THEN step_ram(g1, row, col, next_row, next_col)
            ELSE g1,
            _unfinished)

\* c in "w": the weight ahead is pushed; the ram stays where it met the weight
push_sliding(g, height, width, row, col, next_row, next_col, dir) ==
    Ret(slide_weight(g, height, width, next_row, next_col, dir), _unfinished)

\* damage_wall with the wall destroyed at the first hit
damage_wall_at_once(g, next_row, next_col) ==
    Ret(set_at_pos(g, next_row, next_col, "_"), _unfinished)

\* c in "M": the wall ahead is damaged
damage_wall(g, next_row, next_col) ==
    Ret(set_at_pos(g, next_row, next_col, "m"), _unfinished)

\* c in "m": the damaged wall ahead is destroyed
destroy_wall(g, next_row, next_col) ==
    Ret(set_at_pos(g, next_row, next_col, "_"), _unfinished)

RECURSIVE move_loop(_, _, _, _, _, _)
move_loop(g, height, width, row, col, dir) ==
    LET n == next_pos(row, col, dir)
        next_row == n[1]
        next_col == n[2]
    IN  IF ~in_bounds(height, width, next_row, next_col) THEN Ret(g, _unfinished)
        ELSE LET c == at_pos(g, next_row, next_col)
             IN  IF c \in walk_chars
                     THEN move_loop(step_ram(g, row, col, next_row, next_col),
                                    height, width, next_row, next_col, dir)
                 ELSE IF c = "M" THEN damage_wall(g, next_row, next_col)
                 ELSE IF c = "m" THEN destroy_wall(g, next_row, next_col)
                 ELSE IF c \in emitter_chars
                     THEN Ret(set_at_pos(g, next_row, next_col, "_"), _unfinished)
                 ELSE IF c = "F"
                     THEN reach_finish(g, row, col, next_row, next_col)
                 ELSE IF c \in trap_chars
                     THEN hit_trap(g, row, col, next_row, next_col)
                 ELSE IF c = "o"
                     THEN Ret(step_ram(g, row, col, next_row, next_col), _unfinished)
                 ELSE IF c = "W"
                     THEN push_heavy(g, height, width, row, col,
                                     next_row, next_col, dir)
                 ELSE IF c = "w"
                     THEN push_sliding(g, height, width, row, col,
                                       next_row, next_col, dir)
                 ELSE Ret(g, _invalid)

move(g, dir) ==
    LET p == find_pos(g, "G")
    IN  IF p = <<>>
            THEN IF find_pos(g, "@") # <<>> THEN Ret(g, _victory)
                 ELSE IF find_pos(g, "Y") # <<>> THEN Ret(g, _defeated)
                 ELSE Ret(g, _invalid)
        ELSE move_loop(g, bounds(g)[1], bounds(g)[2], p[1][1], p[1][2], dir)

(***************************************************************************)
(* Non interactive mode: the directions of instr are applied in turn and   *)
(* the loop breaks at the first status other than unfinished.  The status  *)
(* before the loop is the one validate_state returned.                     *)
(***************************************************************************)
RECURSIVE run_batch(_, _, _)
run_batch(g, code, instr) ==
    IF instr = <<>> THEN Ret(g, code)
    ELSE LET r == move(g, instr[1])
         IN  IF r.code # _unfinished THEN r
             ELSE run_batch(r.s, r.code, Tail(instr))

(***************************************************************************)
(* The level files the model is run on.                                    *)
(***************************************************************************)
\* every tile a level file may hold besides the ram
OtherTiles == _valid_chars \ {"G", "@", "Y"}

\* the most emitters on a beam board
MaxLasers == 3

\* the most engine calls (move, update_lasers) after the load
MaxSteps == 3

\* the most engine calls after the load when their loops are followed one
\* iteration at a time
LoopCalls == 2

\* one-row corridors: the ram, three walkable tiles, the finish flag
CorridorLevels ==
    { << <<"G", a, b, c, "F">> >> : a, b, c \in walk_chars }

\* one-row levels of an emitter, three walkable tiles and the ram
BeamRowLevels ==
    { << <<e, a, b, c, "G">> >> : e \in {"<", ">"}, a, b, c \in walk_chars }
        \cup { << <<"G", a, b, c, e>> >> : e \in {"<", ">"}, a, b, c \in walk_chars }

\* one-row levels with the ram in the second column: the finish flag behind it
\* and any two tiles ahead; or something at the edge behind the ram
RowLevels ==
    { << <<"F", "G", b, c>> >> : b, c \in OtherTiles }
        \cup { << <<a, "G", b, "F">> >> :
                 a \in {" ", "M", "W", "w", "x", "o"}, b \in {" ", "M"} }

\* one-row levels with a weight ahead of the ram and two tiles to push it over
ShoveLevels ==
    { << <<"G", p, a, b, "F">> >> :
        p \in {"w", "W"}, a, b \in {" ", "x", "o", "M"} }

Cells(h, w) == (1..h) \X (1..w)

\* the h x w level that holds f[c] at the cells c of f's domain and floor elsewhere
Board(h, w, f) ==
    [i \in 1..h |-> [j \in 1..w |->
        IF <<i, j>> \in DOMAIN f THEN f[<<i, j>>] ELSE " "]]

\* the ways to put up to n tiles of `kinds` on the cells of `free`
Placings(free, n, kinds) ==
    UNION { [P -> kinds] : P \in { Q \in SUBSET free : Cardinality(Q) <= n } }

\* 3 x 2 boards: finish flag top left, ram bottom left, floor in the middle of
\* the right column and up to two emitters on the three cells left
EmitterLevels ==
    { Board(3, 2, f @@ (<<1, 1>> :> "F") @@ (<<3, 1>> :> "G")) :
        f \in Placings({<<1, 2>>, <<2, 1>>, <<3, 2>>}, 2, emitter_chars) }

\* 3 x 3 boards of up to MaxLasers emitters and nothing else
BeamPlacings == Placings(Cells(3, 3), MaxLasers, emitter_chars)

\* one row of three: ram, any tile, finish flag
GateLevels == { << <<"G", t, "F">> >> : t \in OtherTiles }

\* 2 x 5 boards: the ram pushes a sliding weight along the bottom row, across
\* the beams of the down-pointing emitters of the top row
SlideLevels ==
    { << <<"F", " ", a, b, " ">>, <<"G", "w", " ", " ", c>> >> :
        a, b \in {" ", "v"}, c \in {" ", "M", "o"} }

\* files of one or two lines of one or two characters, of the ram tiles, the
\* finish flag, floor and a character that is no tile
ScanTiles == {"G", "@", "Y", "F", " ", "?"}
ScanRows == { <<a>> : a \in ScanTiles } \cup { <<a, b>> : a, b \in ScanTiles }
ScanLevels == { <<l>> : l \in ScanRows } \cup { <<l, m>> : l, m \in ScanRows }

\* files of two lines of unequal length with emitters
RaggedTiles == {"G", "F", " ", ">", "v"}
RaggedLevels ==
    { << <<a>>, <<b, c>> >> : a, b, c \in RaggedTiles }
        \cup { << <<a, b>>, <<c>> >> : a, b, c \in RaggedTiles }

\* an emitter, any tile in its beam, and floor behind: in a row and in a column
ProbeLevels ==
    { << <<">", t, " ">> >> : t \in _valid_chars }
        \cup { << <<"v">>, <<t>>, <<" ">> >> : t \in _valid_chars }

Levels ==
    CorridorLevels \cup BeamRowLevels \cup RowLevels \cup ShoveLevels
        \cup EmitterLevels \cup GateLevels \cup SlideLevels
        \cup ScanLevels \cup RaggedLevels \cup ProbeLevels

\* the instruction strings of the non interactive mode
BatchInstrs ==
    { <<d, d, d, d>> : d \in Dirs } \cup { <<d, e>> : d, e \in Dirs }

(***************************************************************************)
(* The program: load_file and validate_state, then the shell's calls.      *)
(***************************************************************************)
Call(op, dir, instr, before, code) ==
    [op |-> op, dir |-> dir, instr |-> instr, before |-> before, code |-> code]

\* no engine call under way
Idle ==
    [at |-> "idle", row |-> 0, col |-> 0, dir |-> "", n |-> 0,
     todo |-> <<>>, before |-> <<>>]

Init ==
    /\ \/ level \in Levels
       \/ \E f \in BeamPlacings : level = Board(3, 3, f)
    /\ s = level
    /\ e_code = _unfinished
    /\ pc = "load"
    /\ hist = <<>>
    /\ loop = Idle

\* load_file traces the lasers; validate_state decides whether the game starts;
\* an IndexError raised by update_lasers ends the program before validate_state
LoadFile ==
    /\ pc = "load"
    /\ IF update_lasers(s) = IndexError
          THEN pc' = "crash" /\ UNCHANGED <<s, e_code>>
       ELSE /\ s' = update_lasers(s)
            /\ e_code' = validate_state(s')
            /\ pc' = IF e_code' = _unfinished THEN "play" ELSE "exit"
    /\ UNCHANGED <<level, hist, loop>>

\* e_code = move(s, dir)
Move(dir) ==
    /\ pc = "play"
    /\ loop = Idle
    /\ Len(hist) < MaxSteps
    /\ LET r == move(s, dir)
       IN  /\ s' = r.s
           /\ e_code' = r.code
           /\ hist' = Append(hist, Call("move", dir, <<>>, s, r.code))
    /\ UNCHANGED <<level, pc, loop>>

\* s = update_lasers(s)
Lasers ==
    /\ pc = "play"
    /\ loop = Idle
    /\ Len(hist) < MaxSteps
    /\ s' = update_lasers(s)
    /\ hist' = Append(hist, Call("lasers", "", <<>>, s, e_code))
    /\ UNCHANGED <<level, e_code, pc, loop>>

\* the non interactive mode: run instr, save the state, exit with the status
Batch(instr) ==
    /\ pc = "play"
    /\ hist = <<>>
    /\ LET r == run_batch(s, e_code, instr)
       IN  /\ s' = r.s
           /\ e_code' = r.code
           /\ hist' = Append(hist, Call("batch", "", instr, s, r.code))
    /\ pc' = "exit"
    /\ UNCHANGED <<level, loop>>

Next ==
    \/ LoadFile
    \/ \E dir \in Dirs : Move(dir)
    \/ Lasers
    \/ \E instr \in BatchInstrs : Batch(instr)

Spec == Init /\ [][Next]_vars

(***************************************************************************)
(* The same calls with their while loops followed one iteration at a time. *)
(* loop.at names the loop under way: "ram" (move, lines 213-288), "weight" *)
(* (the inner loop of the "w" branch, lines 268-283) or "beam" (one        *)
(* emitter's trace in update_lasers, lines 165-192); loop.row, loop.col    *)
(* and loop.dir are the loop's variables, loop.n the iterations it has     *)
(* completed, loop.todo the emitters still to trace, loop.before the level *)
(* state the call was made on.                                             *)
(***************************************************************************)
\* one pass through the trace loop at (next_row, next_col); n is the position
\* the last statement of the body assigns
trace_pass(g, height, width, next_row, next_col, dir, n) ==
    LET Go(g1) == [s |-> g1, row |-> n[1], col |-> n[2], go |-> TRUE]
        Break(g1) == [s |-> g1, row |-> next_row, col |-> next_col, go |-> FALSE]
    IN  IF ~in_bounds(height, width, next_row, next_col) THEN Break(g)
        ELSE LET c == at_pos(g, next_row, next_col)
             IN  IF crosses(c, dir) THEN Go(set_at_pos(g, next_row, next_col, "+"))
                 ELSE IF c = "G" THEN Break(set_at_pos(g, next_row, next_col, "Y"))
                 ELSE IF c \in laser_obstacles THEN Break(g)
                 ELSE Go(set_at_pos(g, next_row, next_col, beam_char(dir)))

\* trace_step without the step to the next position
trace_step_stuck(g, height, width, next_row, next_col, dir) ==
    trace_pass(g, height, width, next_row, next_col, dir, <<next_row, next_col>>)

trace_step(g, height, width, next_row, next_col, dir) ==
    trace_pass(g, height, width, next_row, next_col, dir,
               next_pos(next_row, next_col, dir))

\* one pass through the inner loop of the "w" branch, the weight at (row, col)
slide_step(g, height, width, row, col, dir) ==
    LET n == next_pos(row, col, dir)
        Break(g1) == [s |-> g1, row |-> row, col |-> col, go |-> FALSE]
    IN  IF ~in_bounds(height, width, n[1], n[2]) THEN Break(g)
        ELSE LET nc == at_pos(g, n[1], n[2])
             IN  IF nc \in push_chars
                     THEN [s |-> set_at_pos(set_at_pos(g, row, col, " "),
                                            n[1], n[2], "w"),
                           row |-> n[1], col |-> n[2], go |-> TRUE]
                 ELSE IF nc = "o"
                     THEN Break(set_at_pos(set_at_pos(g, row, col, " "),
                                           n[1], n[2], "_"))
                 ELSE Break(g)

\* one pass through the loop of move, the ram at (row, col): the ram steps on
\* and the loop goes round, or the inner loop of the "w" branch is entered, or
\* the branch taken returns
ram_step(g, height, width, row, col, dir) ==
    LET n == next_pos(row, col, dir)
        c == at_pos(g, n[1], n[2])
    IN  IF in_bounds(height, width, n[1], n[2]) /\ c \in walk_chars
            THEN [s |-> step_ram(g, row, col, n[1], n[2]), at |-> "ram",
                  row |-> n[1], col |-> n[2], code |-> _unfinished]
        ELSE IF in_bounds(height, width, n[1], n[2]) /\ c = "w"
            THEN [s |-> g, at |-> "weight",
                  row |-> n[1], col |-> n[2], code |-> _unfinished]
        ELSE LET r == move_loop(g, height, width, row, col, dir)
             IN  [s |-> r.s, at |-> "idle", row |-> row, col |-> col,
                  code |-> r.code]

\* a loop starts
Running(at, row, col, dir, todo, before) ==
    [at |-> at, row |-> row, col |-> col, dir |-> dir, n |-> 0,
     todo |-> todo, before |-> before]

\* the call under way returns
Return(op, dir, before, code) ==
    /\ loop' = Idle
    /\ hist' = Append(hist, Call(op, dir, <<>>, before, code))

\* move(s, dir) is called: it returns at once when there is no ram
CallMove(dir) ==
    /\ pc = "play"
    /\ loop = Idle
    /\ Len(hist) < LoopCalls
    /\ LET p == find_pos(s, "G")
       IN  IF p = <<>>
               THEN /\ e_code' = move(s, dir).code
                    /\ Return("move", dir, s, move(s, dir).code)
           ELSE /\ loop' = Running("ram", p[1][1], p[1][2], dir, <<>>, s)
                /\ UNCHANGED <<e_code, hist>>
    /\ UNCHANGED <<level, s, pc>>

RamStep ==
    /\ loop.at = "ram"
    /\ LET r == ram_step(s, bounds(s)[1], bounds(s)[2],
                         loop.row, loop.col, loop.dir)
       IN  /\ s' = r.s
           /\ IF r.at = "idle"
                 THEN /\ e_code' = r.code
                      /\ Return("move", loop.dir, loop.before, r.code)
              ELSE /\ loop' = [loop EXCEPT !.at = r.at, !.row = r.row,
                                           !.col = r.col,
                                           !.n = IF r.at = "ram" THEN @ + 1 ELSE 0]
                   /\ UNCHANGED <<e_code, hist>>
    /\ UNCHANGED <<level, pc>>

WeightStep ==
    /\ loop.at = "weight"
    /\ LET r == slide_step(s, bounds(s)[1], bounds(s)[2],
                           loop.row, loop.col, loop.dir)
       IN  /\ s' = r.s
           /\ IF r.go
                 THEN /\ loop' = [loop EXCEPT !.row = r.row, !.col = r.col,
                                              !.n = @ + 1]
                      /\ UNCHANGED <<e_code, hist>>
              ELSE /\ e_code' = _unfinished
                   /\ Return("move", loop.dir, loop.before, _unfinished)
    /\ UNCHANGED <<level, pc>>

\* update_lasers(s) is called: the beams are cleared, the emitters collected
CallLasers ==
    /\ pc = "play"
    /\ loop = Idle
    /\ Len(hist) < LoopCalls
    /\ LET g0 == clear_beams(s)
           ls == lasers_of(g0)
       IN  /\ s' = g0
           /\ IF ls = <<>> THEN Return("lasers", "", s, e_code)
              ELSE /\ loop' = Running("beam",
                                      next_pos(ls[1][1], ls[1][2], ls[1][3])[1],
                                      next_pos(ls[1][1], ls[1][2], ls[1][3])[2],
                                      ls[1][3], Tail(ls), s)
                   /\ UNCHANGED hist
    /\ UNCHANGED <<level, e_code, pc>>

BeamStep ==
    /\ loop.at = "beam"
    /\ LET r == trace_step(s, bounds(s)[1], bounds(s)[2],
                           loop.row, loop.col, loop.dir)
       IN  /\ s' = r.s
           /\ IF r.go
                 THEN /\ loop' = [loop EXCEPT !.row = r.row, !.col = r.col,
                                              !.n = @ + 1]
                      /\ UNCHANGED hist
              ELSE IF loop.todo = <<>>
                 THEN Return("lasers", "", loop.before, e_code)
              ELSE /\ loop' =
                        LET l == loop.todo[1]
                        IN  Running("beam", next_pos(l[1], l[2], l[3])[1],
                                    next_pos(l[1], l[2], l[3])[2], l[3],
                                    Tail(loop.todo), loop.before)
                   /\ UNCHANGED hist
    /\ UNCHANGED <<level, e_code, pc>>

NextLoops ==
    \/ LoadFile
    \/ \E dir \in Dirs : CallMove(dir)
    \/ RamStep
    \/ WeightStep
    \/ CallLasers
    \/ BeamStep

SpecLoops == Init /\ [][NextLoops]_vars

(***************************************************************************)
(* Vocabulary of the properties.                                           *)
(***************************************************************************)
\* load_file has run
Loaded == pc \in {"play", "exit"}

\* the last engine call, when there is one
Last == hist[Len(hist)]

\* the level state after the i-th engine call
After(i) == IF i = Len(hist) THEN s ELSE hist[i + 1].before

\* the level state is the one update_lasers has just returned
JustTraced == Loaded /\ (hist = <<>> \/ Last.op = "lasers")

\* the state update_lasers was last called on, when JustTraced
TracedFrom == IF hist = <<>> THEN level ELSE Last.before

IsRow(g, n) == Len(g) = 1 /\ Len(g[1]) = n

RamTiles == {"G", "@", "Y"}

RamCount(g) == count_of(g, "G") + count_of(g, "@") + count_of(g, "Y")

Tile(g, p) == g[p[1]][p[2]]

Inside(g, p) == in_bounds(bounds(g)[1], bounds(g)[2], p[1], p[2])

Ahead(p, dir) == next_pos(p[1], p[2], dir)

\* the tile from which a ram at p, sliding in direction dir over walkable
\* tiles, meets the first tile that is not walkable (or the edge)
RECURSIVE Met(_, _, _)
Met(g, p, dir) ==
    IF Inside(g, Ahead(p, dir)) /\ Tile(g, Ahead(p, dir)) \in walk_chars
        THEN Met(g, Ahead(p, dir), dir)
    ELSE p

\* the last call was move(before, dir) on a state with a live ram
Moved == hist # <<>> /\ Last.op = "move" /\ find_pos(Last.before, "G") # <<>>

RamBefore == find_pos(Last.before, "G")[1]

\* the ram's tile when it stopped sliding, and the two tiles ahead of it
MetAt == Met(Last.before, RamBefore, Last.dir)
Front == Ahead(MetAt, Last.dir)
Beyond == Ahead(Front, Last.dir)

\* the last move met tile c ahead of the ram
MovedInto(c) ==
    Moved /\ Inside(Last.before, Front) /\ Tile(Last.before, Front) = c

(***************************************************************************)
(* C1.  The corridor G . . . F under the batch "llll".                     *)
(***************************************************************************)
CorridorRun ==
    /\ level \in CorridorLevels
    /\ hist # <<>>
    /\ Last.op = "batch"
    /\ Last.instr = <<"l", "l", "l", "l">>

\* C1 as stated: after the batch the corridor is four Trail tiles followed by
\* RamVictorious in the last column, and the status is Victory.
C1_FlagReplaced ==
    CorridorRun =>
        s = << <<".", ".", ".", ".", "@">> >> /\ e_code = _victory

\* C1 amended: after the batch the corridor is three Trail tiles, RamVictorious
\* in the fourth column (the ram's last tile) and the Finish flag still in the
\* last column, and the status is Victory.
C1_FlagKept ==
    CorridorRun =>
        s = << <<".", ".", ".", "@", "F">> >> /\ e_code = _victory

C1_Witness == CorridorRun /\ pc = "exit" /\ level[1][3] = "_"

(***************************************************************************)
(* C2.  One row: an emitter in the first column, three empty tiles, ram.   *)
(***************************************************************************)
EmitterRow(e) ==
    /\ IsRow(level, 5)
    /\ level[1][1] = e
    /\ level[1][5] = "G"
    /\ \A j \in 2..4 : level[1][j] \in walk_chars

\* C2 as stated: with a left-pointing emitter in column 0 and the ram in the
\* last column, one update_lasers marks the three tiles between Horizontal and
\* turns the ram into RamDefeated.
C2_LeftEmitterHits ==
    (EmitterRow("<") /\ Loaded /\ hist = <<>>) =>
        s = << <<"<", "-", "-", "-", "Y">> >>

\* C2 amended: a left-pointing emitter in column 0 beams off the grid, so one
\* update_lasers leaves the row unchanged and the ram alive; the tiles between
\* are marked Horizontal and the ram is turned into RamDefeated when the emitter
\* in column 0 points right, at the ram.
C2_EmitterRow ==
    (Loaded /\ hist = <<>>) =>
        /\ EmitterRow("<") => s = level
        /\ EmitterRow(">") => s = << <<">", "-", "-", "-", "Y">> >>

C2_Witness == EmitterRow("<") /\ Loaded /\ s[1][5] = "G"

(***************************************************************************)
(* C3.  The order in which update_lasers traces the emitters.              *)
(***************************************************************************)
Reorderings(ls) ==
    LET n == Len(ls)
    IN  { [i \in 1..n |-> ls[f[i]]] :
            f \in { h \in [1..n -> 1..n] : \A i, j \in 1..n : h[i] = h[j] => i = j } }

\* C3: whatever the order the emitters are traced in, update_lasers yields the
\* same level state.
C3_OrderIndependent ==
    JustTraced =>
        LET g0 == clear_beams(TracedFrom)
        IN  \A ls \in Reorderings(lasers_of(g0)) : trace_all(g0, ls) = s

(***************************************************************************)
(* C4.  The number of ram tiles.                                           *)
(***************************************************************************)
\* C4: in every level state reached from a validated level by move and
\* update_lasers calls, exactly one tile is Ram, RamVictorious or RamDefeated.
C4_OneRam ==
    (pc = "play" \/ hist # <<>>) => RamCount(s) = 1

(***************************************************************************)
(* C5.  A Cross beam tile ahead of the ram.                                *)
(***************************************************************************)
\* C5: when move finds a Cross tile ahead of the ram, the ram's tile becomes
\* RamDefeated and move returns Defeated.
C5_CrossIsTrap ==
    MovedInto("+") => Tile(s, MetAt) = "Y" /\ Last.code = _defeated

(***************************************************************************)
(* C6.  A SlidingWeight ahead of the ram.                                  *)
(***************************************************************************)
\* the weight ahead of the ram cannot move
WeightBlocked ==
    \/ ~Inside(Last.before, Beyond)
    \/ Tile(Last.before, Beyond) \notin push_chars \cup {"o"}

\* C6 as stated, where the weight is free to move: after move has met a
\* SlidingWeight the ram stands on the tile where the weight started, and the
\* status is Unfinished.
C6_RamFollows ==
    (MovedInto("w") /\ ~WeightBlocked) =>
        Tile(s, Front) = "G" /\ Last.code = _unfinished

\* C6 amended: after move has met a SlidingWeight the ram stands on the tile
\* from which it met the weight (it does not advance), however far the weight
\* travels; the tile where the weight started holds the weight when the weight
\* is blocked and Floor when it moved; the status is Unfinished.
C6_RamStays ==
    MovedInto("w") =>
        /\ Tile(s, MetAt) = "G"
        /\ Tile(s, Front) = (IF WeightBlocked THEN "w" ELSE " ")
        /\ Last.code = _unfinished

\* the weight travelled two tiles
C6_Witness ==
    /\ MovedInto("w")
    /\ Inside(s, Ahead(Beyond, Last.dir))
    /\ Tile(s, Ahead(Beyond, Last.dir)) = "w"
    /\ Tile(s, MetAt) = "G"

(***************************************************************************)
(* C7.  update_lasers run twice.                                           *)
(***************************************************************************)
\* the i-th call is update_lasers and so was the call before it (load_file's
\* for the first)
TracedTwice(i) ==
    /\ i \in 1..Len(hist)
    /\ hist[i].op = "lasers"
    /\ (i = 1 \/ hist[i - 1].op = "lasers")

\* C7: a second update_lasers right after a first returns the level state the
\* first returned.
C7_Idempotent ==
    /\ JustTraced => update_lasers(s) = s
    /\ \A i \in 1..Len(hist) : TracedTwice(i) => After(i) = hist[i].before

\* two runs in a row after a move, the first of which changed the level
C7_Witness ==
    /\ Len(hist) = 3
    /\ hist[1].op = "move"
    /\ TracedTwice(3)
    /\ hist[2].before # hist[3].before
    /\ count_of(s, "Y") = 1

(***************************************************************************)
(* C8.  Three moves into a Wall.                                           *)
(***************************************************************************)
\* calls i, i+1, i+2 are moves in one direction, the first with a Wall next
\* to the ram in that direction
WallRun(i) ==
    /\ i >= 1 /\ i + 2 <= Len(hist)
    /\ \A k \in i..(i + 2) : hist[k].op = "move" /\ hist[k].dir = hist[i].dir
    /\ find_pos(hist[i].before, "G") # <<>>
    /\ LET n == Ahead(find_pos(hist[i].before, "G")[1], hist[i].dir)
       IN  Inside(hist[i].before, n) /\ Tile(hist[i].before, n) = "M"

WallRam(i) == find_pos(hist[i].before, "G")[1]
WallAt(i) == Ahead(WallRam(i), hist[i].dir)

\* q lies k >= least steps from p in direction dir
OnRay(p, q, dir, least) ==
    \E k \in least..(Len(s) + Len(s[1])) :
        q = IF dir = "h" THEN <<p[1], p[2] - k>>
            ELSE IF dir = "l" THEN <<p[1], p[2] + k>>
            ELSE IF dir = "k" THEN <<p[1] - k, p[2]>>
            ELSE <<p[1] + k, p[2]>>

\* the first two moves: Wall to DamagedWall to Rubble, nothing else changes
WallWornDown(i) ==
    /\ After(i) = set_at_pos(hist[i].before, WallAt(i)[1], WallAt(i)[2], "m")
    /\ hist[i].code = _unfinished
    /\ After(i + 1) = set_at_pos(hist[i].before, WallAt(i)[1], WallAt(i)[2], "_")
    /\ hist[i + 1].code = _unfinished

\* after the third move a ram tile lies at least `least` tiles beyond the wall's
RamBeyondWall(i, least) ==
    \E q \in Cells(Len(s), Len(s[1])) :
        /\ Tile(After(i + 2), q) \in RamTiles
        /\ OnRay(WallAt(i), q, hist[i].dir, least)

\* C8 as stated: the first two moves wear the wall down without moving the
\* ram, and on the third the ram moves onto and past the former wall tile.
C8_WallPassed ==
    \A i \in 1..Len(hist) :
        WallRun(i) => WallWornDown(i) /\ RamBeyondWall(i, 1)

\* C8 amended: the first two moves wear the wall down without moving the ram;
\* on the third the ram leaves its tile (which becomes Trail) and moves onto
\* the former wall tile, and it ends there or further on in that direction.
C8_WallEntered ==
    \A i \in 1..Len(hist) :
        WallRun(i) =>
            /\ WallWornDown(i)
            /\ Tile(After(i + 2), WallRam(i)) = "."
            /\ RamBeyondWall(i, 0)

\* the ram has passed the former wall tile
C8_Witness ==
    WallRun(1) /\ Len(hist) = 3 /\ Tile(s, WallAt(1)) = "."

(***************************************************************************)
(* C9.  A HeavyWeight that cannot move.                                    *)
(***************************************************************************)
HeavyBlocked ==
    /\ MovedInto("W")
    /\ MetAt = RamBefore
    /\ \/ ~Inside(Last.before, Beyond)
       \/ Tile(Last.before, Beyond) \notin
              {" ", "_", ".", "x", "|", "-", "+", "o"}

\* C9: a move of the ram toward the HeavyWeight next to it, when the tile
\* beyond the weight is off the grid or is none of Floor, Rubble, Trail, Trap,
\* a beam tile, Hole, changes no tile and returns Unfinished.
C9_HeavyStays ==
    HeavyBlocked => s = Last.before /\ Last.code = _unfinished

C9_Witness ==
    HeavyBlocked /\ Inside(Last.before, Beyond) /\ Tile(s, Beyond) = "F"

(***************************************************************************)
(* C10.  A HeavyWeight pushed into a Hole.                                 *)
(***************************************************************************)
HeavyOverHole ==
    /\ MovedInto("W")
    /\ Inside(Last.before, Beyond)
    /\ Tile(Last.before, Beyond) = "o"

\* C10: after the ram has pushed a HeavyWeight whose next tile is a Hole, the
\* Hole's tile is Rubble, the ram stands on the weight's former tile, no
\* HeavyWeight is left on either tile, and the tile the ram came from is Trail.
C10_HeavyIntoHole ==
    HeavyOverHole =>
        /\ Tile(s, Beyond) = "_"
        /\ Tile(s, Front) = "G"
        /\ Tile(s, MetAt) = "."
        /\ Tile(s, RamBefore) = "."

C10_Witness == HeavyOverHole /\ Tile(s, Front) = "G"

(***************************************************************************)
(* C11.  A SlidingWeight pushed across Trap and beam tiles.                *)
(***************************************************************************)
\* the tiles the claim lets a sliding weight pass: walkable, Trap and beam
slide_chars == {" ", "_", ".", "x", "|", "-", "+"}

\* the last tile, from p on in direction dir, before a tile that is off the
\* grid or not in slide_chars
RECURSIVE Rest(_, _, _)
Rest(g, p, dir) ==
    IF Inside(g, Ahead(p, dir)) /\ Tile(g, Ahead(p, dir)) \in slide_chars
        THEN Rest(g, Ahead(p, dir), dir)
    ELSE p

\* the tiles from p up to q in direction dir, q left out
RECURSIVE Stretch(_, _, _)
Stretch(p, q, dir) ==
    IF p = q THEN {} ELSE {p} \cup Stretch(Ahead(p, dir), q, dir)

RestAt == Rest(Last.before, Front, Last.dir)
Swallowed ==
    /\ Inside(Last.before, Ahead(RestAt, Last.dir))
    /\ Tile(Last.before, Ahead(RestAt, Last.dir)) = "o"

\* the weight slid from Front to RestAt, or into the hole behind RestAt
WeightSlid ==
    /\ \A q \in Stretch(Front, RestAt, Last.dir) : Tile(s, q) = " "
    /\ IF Swallowed
          THEN /\ Tile(s, RestAt) = " "
               /\ Tile(s, Ahead(RestAt, Last.dir)) = "_"
          ELSE Tile(s, RestAt) = "w"

\* the Trap and beam tiles the weight came across
Crossed ==
    { q \in Stretch(Front, RestAt, Last.dir) \cup {RestAt} :
        q # Front /\ Tile(Last.before, q) \in {"x", "|", "-", "+"} }

\* C11 as stated: a pushed SlidingWeight ends on the last tile before an
\* obstacle or the grid edge, or in the Hole behind that tile, and every Trap
\* or beam tile on its way, that last tile included, ends up as Floor.
C11_TrapsBecomeFloor ==
    MovedInto("w") =>
        WeightSlid /\ \A q \in Crossed : Tile(s, q) = " "

\* C11 amended: a pushed SlidingWeight ends on the last tile before an obstacle
\* or the grid edge, or in the Hole behind that tile; every Trap or beam tile it
\* has moved past ends up as Floor, and a Trap or beam tile it comes to rest on
\* holds the weight.
C11_WeightRests ==
    MovedInto("w") =>
        /\ WeightSlid
        /\ \A q \in Crossed :
              Tile(s, q) = IF q = RestAt /\ ~Swallowed THEN "w" ELSE " "

\* the weight has gone past a beam tile and rests further on
C11_Witness ==
    /\ MovedInto("w")
    /\ \E q \in Crossed : q # RestAt /\ Tile(Last.before, q) = "|"
    /\ Tile(s, RestAt) = "w"

(***************************************************************************)
(* C12.  The ram meets a Trap.                                             *)
(***************************************************************************)
AllCells(g) == { <<i, j>> : i \in 1..Len(g), j \in 1..Len(g[1]) }

\* the tiles the ram slid over before it stopped at MetAt
Slid == Stretch(RamBefore, MetAt, Last.dir)

\* C12: when the tile ahead of the ram, after its slide over walkable tiles,
\* is a Trap, move makes the tile the ram stands on RamDefeated, leaves the
\* Trap and all other tiles but the ram's trail as they were and returns
\* Defeated; the row Ram, Trap, Finish moved right once is RamDefeated, Trap,
\* Finish with status Defeated.
C12_TrapDefeats ==
    /\ MovedInto("x") =>
          /\ Last.code = _defeated
          /\ Tile(s, MetAt) = "Y"
          /\ \A q \in Slid : Tile(s, q) = "."
          /\ \A q \in AllCells(s) \ (Slid \cup {MetAt}) :
                Tile(s, q) = Tile(Last.before, q)
    /\ (level = << <<"G", "x", "F">> >> /\ Len(hist) = 1 /\ Moved
            /\ Last.dir = "l") =>
          s = << <<"Y", "x", "F">> >> /\ Last.code = _defeated

C12_Witness ==
    /\ level = << <<"G", "x", "F">> >>
    /\ MovedInto("x")
    /\ Len(hist) = 1
    /\ s[1][1] = "Y"

(***************************************************************************)
(* C13.  validate_state.                                                   *)
(***************************************************************************)
\* the positions of the characters of g, whatever the lengths of its lines
Places(g) == UNION { { <<i, j>> : j \in 1..Len(g[i]) } : i \in 1..Len(g) }

Holding(g, kinds) == { p \in Places(g) : g[p[1]][p[2]] \in kinds }

Ragged(g) == \E i, j \in 1..Len(g) : Len(g[i]) # Len(g[j])

\* validate_state has just returned e_code for s
Validated == Loaded /\ hist = <<>>

\* C13: validate_state returns Invalid for a grid with rows of unequal length,
\* or a symbol that is no tile, or no Finish, or a number of Ram,
\* RamVictorious and RamDefeated tiles other than one; for every other grid it
\* returns Victory, Defeated or Unfinished as the one such tile is
\* RamVictorious, RamDefeated or Ram.
C13_Validate ==
    Validated =>
        e_code =
            IF \/ Ragged(s)
               \/ Holding(s, _valid_chars) # Places(s)
               \/ Holding(s, {"F"}) = {}
               \/ Cardinality(Holding(s, {"G", "@", "Y"})) # 1
                THEN _invalid
            ELSE IF Holding(s, {"@"}) # {} THEN _victory
            ELSE IF Holding(s, {"Y"}) # {} THEN _defeated
            ELSE _unfinished

\* a grid found Invalid for the length of its rows alone
C13_Witness ==
    /\ Validated
    /\ Ragged(s)
    /\ Holding(s, _valid_chars) = Places(s)
    /\ Holding(s, {"F"}) # {}
    /\ Cardinality(Holding(s, {"G", "@", "Y"})) = 1
    /\ e_code = _invalid

(***************************************************************************)
(* C14.  The loops of move and update_lasers end.                          *)
(***************************************************************************)
LongSide == IF bounds(s)[1] > bounds(s)[2] THEN bounds(s)[1] ELSE bounds(s)[2]

\* a call that has returned left what move and update_lasers compute
LoopsAgree ==
    (loop = Idle /\ hist # <<>>) =>
        IF Last.op = "move"
            THEN move(Last.before, Last.dir) = Ret(s, Last.code)
        ELSE update_lasers(Last.before) = s

\* C14: while the ram's slide, a SlidingWeight's slide or a beam trace is
\* under way, fewer iterations than the longer side of the grid are completed,
\* so that the loop ends with at most that many, and the next iteration can
\* be taken: every call of move and of update_lasers ends.
C14_LoopsEnd ==
    loop # Idle =>
        /\ loop.n < LongSide
        /\ ENABLED (RamStep \/ WeightStep \/ BeamStep)

\* a beam trace that takes as many iterations as the longer side of the grid
C14_Witness ==
    /\ loop.at = "beam"
    /\ loop.n + 1 = LongSide
    /\ LongSide >= 3
    /\ ~in_bounds(bounds(s)[1], bounds(s)[2], loop.row, loop.col)

(***************************************************************************)
(* C15.  The tiles a beam stops at.                                        *)
(***************************************************************************)
\* update_lasers has traced the one beam of a probe level: the tile the beam
\* meets first, that tile and the one behind it afterwards, the beam's mark
Probed == Validated /\ level \in ProbeLevels
ProbeTile == IF Len(level) = 1 THEN level[1][2] ELSE level[2][1]
Seen == IF Len(level) = 1 THEN <<s[1][2], s[1][3]>> ELSE <<s[2][1], s[3][1]>>
ProbeMark == IF Len(level) = 1 THEN "-" ELSE "|"

\* the beam has stopped at the tile without marking it; the tile behind is as
\* it was unless the tile met is itself an emitter
BeamStopped ==
    Seen[1] = ProbeTile /\ (ProbeTile \notin emitter_chars => Seen[2] = " ")

BeamPassed == Seen = <<ProbeMark, ProbeMark>>

\* C15 as stated: a trace stops without marking the tile exactly when the tile
\* is Finish, DamagedWall, HeavyWeight, Wall, an emitter or RamDefeated; every
\* other tile that is neither Ram nor a beam, a SlidingWeight among them, is
\* marked and the trace goes on behind it.
C15_WeightPassed ==
    (Probed /\ ProbeTile \notin {"G", "|", "-", "+"}) =>
        IF ProbeTile \in {"F", "m", "W", "M", "Y"} \cup emitter_chars
            THEN BeamStopped
        ELSE BeamPassed

\* C15 amended: a trace stops without marking the tile exactly when the tile
\* is Finish, DamagedWall, Wall, HeavyWeight, SlidingWeight, an emitter or
\* RamDefeated; every other tile that is neither Ram nor a beam is marked and
\* the trace goes on behind it.
C15_WeightStops ==
    (Probed /\ ProbeTile \notin {"G", "|", "-", "+"}) =>
        IF ProbeTile \in {"F", "m", "W", "w", "M", "Y"} \cup emitter_chars
            THEN BeamStopped
        ELSE BeamPassed

C15_Witness == Probed /\ ProbeTile = "w" /\ Seen = <<"w", " ">>

(***************************************************************************)
(* C16.  Cross tiles.                                                      *)
(***************************************************************************)
\* the direction an emitter beams in
Facing(c) ==
    IF c = "<" THEN "h" ELSE IF c = ">" THEN "l" ELSE IF c = "^" THEN "k" ELSE "j"

\* the floor tiles between p and the next emitter or the edge in direction dir
RECURSIVE Lit(_, _, _)
Lit(g, p, dir) ==
    IF Inside(g, Ahead(p, dir)) /\ Tile(g, Ahead(p, dir)) = " "
        THEN {Ahead(p, dir)} \cup Lit(g, Ahead(p, dir), dir)
    ELSE {}

\* the tiles on the trace of at least one emitter of `kinds`
LitBy(g, kinds) ==
    UNION { Lit(g, p, Facing(Tile(g, p))) : p \in Holding(g, kinds) }

\* the level read holds emitters and floor only
EmittersOnly == Holding(level, emitter_chars \cup {" "}) = Places(level)

\* C16: after update_lasers on a level of emitters and floor, a tile is Cross
\* exactly when it is on the trace of a horizontal emitter and on the trace of
\* a vertical emitter, however many emitters of either axis pass through it.
C16_CrossIffBoth ==
    (Validated /\ EmittersOnly) =>
        \A q \in Places(s) :
            Tile(s, q) = "+" <=>
                q \in LitBy(level, {"<", ">"}) \cap LitBy(level, {"^", "v"})

(***************************************************************************)
(* C17.  Loading a file with lines of unequal length.                      *)
(***************************************************************************)
\* C17: the load of a grid with rows of unequal length ends with the Invalid
\* validation result, never with an index out of range in a beam trace.
C17_RaggedInvalid ==
    (pc # "load" /\ Ragged(level)) => pc = "exit" /\ e_code = _invalid

(***************************************************************************)
(* C18.  Moves after Victory or Defeated.                                  *)
(***************************************************************************)
\* calls i+1 .. j are all moves
MovesOnly(i, j) == \A k \in (i + 1)..j : hist[k].op = "move"

\* call i is a move that returned Victory or Defeated
Ended(i) == hist[i].op = "move" /\ hist[i].code \in {_victory, _defeated}

\* C18: once a move has returned Victory or Defeated, every later move, with
\* no update_lasers in between, returns the same status and leaves the level
\* state as that move left it.
C18_Absorbing ==
    \A i, j \in 1..Len(hist) :
        (i < j /\ Ended(i) /\ MovesOnly(i, j)) =>
            hist[j].code = hist[i].code /\ After(j) = After(i)

\* a Defeated followed by moves in two other directions
C18_Witness ==
    /\ Len(hist) = 3
    /\ Ended(1)
    /\ MovesOnly(1, 3)
    /\ Cardinality({hist[1].dir, hist[2].dir, hist[3].dir}) = 3
    /\ hist[1].code = _defeated

(***************************************************************************)
(* C19.  The Finish tiles.                                                 *)
(***************************************************************************)
\* C19: after the load and any sequence of move and update_lasers calls the
\* positions that hold Finish are those of the level read, so a level that
\* was validated keeps at least one Finish.
C19_FinishKept ==
    Loaded =>
        /\ Holding(s, {"F"}) = Holding(level, {"F"})
        /\ pc = "play" => Holding(s, {"F"}) # {}

\* the ram has reached the flag and the beams were traced again afterwards
C19_Witness ==
    /\ Len(hist) >= 2
    /\ hist[1].op = "move"
    /\ hist[1].code = _victory
    /\ Last.op = "lasers"
    /\ Holding(s, {"F"}) # {}
    /\ Holding(s, {"-", "|"}) # {}

(***************************************************************************)
(* C20.  The status move returns and the level state it leaves.            *)
(***************************************************************************)
\* C20: a status other than Invalid returned by move is the one
\* determine_new_state finds in the resulting level state: Victory only with
\* a RamVictorious tile, Defeated only with a RamDefeated tile, Unfinished
\* only with a Ram tile.
C20_StatusAgrees ==
    (hist # <<>> /\ Last.op = "move" /\ Last.code # _invalid) =>
        /\ Last.code = determine_new_state(s)
        /\ Last.code = _victory => Holding(s, {"@"}) # {}
        /\ Last.code = _defeated => Holding(s, {"Y"}) # {}
        /\ Last.code = _unfinished => Holding(s, {"G"}) # {}

\* the ram has pushed a HeavyWeight, the one move that asks
\* determine_new_state for its status, after an earlier call
C20_Witness ==
    /\ MovedInto("W")
    /\ Tile(s, Front) = "G"
    /\ Len(hist) >= 2
    /\ Last.code = _unfinished

====
